---- MODULE Spec2Model ----
(***************************************************************************)
(* figmasjon: the widget-src/code.tsx plugin.  The plugin's main script    *)
(* shows the UI, registers the UI message handler and exports the current  *)
(* selection (with all descendants) as one JSON message posted to the UI.  *)
(*                                                                         *)
(* JavaScript values are modelled as tagged records so that `undefined`,   *)
(* the figma.mixed symbol and ordinary values can live in the same object. *)
(* A JavaScript object is a TLA+ function from its own property names to   *)
(* values: `'k' in obj` is  "k" \in DOMAIN obj.  The two array-of-object   *)
(* properties (children, selectedNodes) are sequences of objects.          *)
(***************************************************************************)
EXTENDS Integers, Sequences, FiniteSets, TLC

VARIABLES
  page,      \* figma.currentPage: name, id and the selection forest
  running,   \* the plugin is running (between launch and figma.closePlugin)
  uiShown,   \* figma.showUI has opened the plugin UI
  posted,    \* history of the messages handed to figma.ui.postMessage
  calls,     \* processNode invocations of the latest export: <<[arg, ret]>>
  runs       \* number of times the main script has been run

vars == <<page, running, uiShown, posted, calls, runs>>

----------------------------------------------------------------------------
(* Bounds *)

MaxNodes == 4       \* nodes in a forest built from ShapeTemplates
MaxRichNodes == 1   \* nodes in a forest built from RichTemplates
MaxRuns == 2        \* launches of the plugin

----------------------------------------------------------------------------
(* JavaScript values *)

Str(s) == [t |-> "string", v |-> s]
Num(n) == [t |-> "number", v |-> n]
Bool(b) == [t |-> "boolean", v |-> b]
Paints(c) == [t |-> "array", v |-> <<c>>]
Font(f) == [t |-> "object", v |-> f]
Undefined == [t |-> "undefined"]
Null == [t |-> "null"]
Mixed == [t |-> "symbol"]

NoProps == [k \in {} |-> Undefined]

\* obj[k] as JavaScript reads it: a missing property reads as undefined
Get(obj, k) == IF k \in DOMAIN obj THEN obj[k] ELSE Undefined

\* obj[k] = v as JavaScript writes it: creates or overwrites the property
Set(obj, k, v) == (k :> v) @@ obj

----------------------------------------------------------------------------
(* Input nodes (SceneNode) *)

CommonKeys == {"type", "name", "x", "y", "width", "height", "id", "visible"}

LayoutKeys ==
  {"layoutMode", "primaryAxisSizingMode", "counterAxisSizingMode",
   "paddingLeft", "paddingRight", "paddingTop", "paddingBottom"}

FrameLikeTypes == {"FRAME", "INSTANCE", "COMPONENT"}

DispatchedTypes ==
  {"FRAME", "INSTANCE", "COMPONENT", "TEXT", "RECTANGLE", "COMPONENT_SET"}

LayoutProps ==
  [layoutMode |-> Str("HORIZONTAL"),
   primaryAxisSizingMode |-> Str("FIXED"),
   counterAxisSizingMode |-> Str("AUTO"),
   paddingLeft |-> Num(1), paddingRight |-> Num(2),
   paddingTop |-> Num(3), paddingBottom |-> Num(4)]

ChildrenProp == [children |-> <<>>]

FrameTemplates ==
  { [type |-> Str(ty)] @@ lay @@ ch :
      ty \in FrameLikeTypes, lay \in {NoProps, LayoutProps},
      ch \in {NoProps, ChildrenProp} }

TextTemplates ==
  { [type |-> Str("TEXT"), characters |-> Str("hello"),
     fontSize |-> fs, fontName |-> fn,
     textAlignHorizontal |-> Str("LEFT"), textAlignVertical |-> Str("TOP"),
     fills |-> fl] :
      fs \in {Num(12), Mixed}, fn \in {Font("Inter"), Mixed},
      fl \in {Paints("red"), Mixed} }

RectangleTemplates ==
  { [type |-> Str("RECTANGLE"), cornerRadius |-> cr, fills |-> fl,
     strokes |-> Paints("black"), strokeWeight |-> sw] :
      cr \in {Num(4), Mixed}, fl \in {Paints("blue"), Mixed},
      sw \in {Num(2), Mixed} }

OtherTemplates ==
  { [type |-> Str("COMPONENT_SET")] @@ ChildrenProp,
    [type |-> Str("GROUP")] @@ ChildrenProp,
    [type |-> Str("VECTOR")],
    [type |-> Str("ELLIPSE")] }

RichTemplates ==
  FrameTemplates \cup TextTemplates \cup RectangleTemplates \cup OtherTemplates

ShapeTemplates ==
  { [type |-> Str("FRAME")] @@ LayoutProps @@ ChildrenProp,
    [type |-> Str("GROUP")] @@ ChildrenProp,
    [type |-> Str("VECTOR")],
    [type |-> Str("TEXT"), characters |-> Str("hello"),
     fontSize |-> Num(12), fontName |-> Font("Inter"),
     textAlignHorizontal |-> Str("LEFT"), textAlignVertical |-> Str("TOP"),
     fills |-> Mixed] }

\* The common properties of the node with identifier id that is the i-th
\* of its siblings; every property gets a value no other property has.
CommonProps(id, i) ==
  [name |-> Str("layer " \o id), x |-> Num(i), y |-> Num(10 + i),
   width |-> Num(20 + i), height |-> Num(30 + i),
   id |-> Str(id), visible |-> Bool(i % 2 = 1)]

RECURSIVE TreesOfSize(_, _, _, _), ForestsOfSize(_, _, _, _)

\* The trees of exactly n nodes over the templates T whose root is the
\* i-th child of the node identified by path ("" for a selection root).
TreesOfSize(T, n, path, i) ==
  LET id == IF path = "" THEN ToString(i) ELSE path \o ":" \o ToString(i)
  IN  IF n = 1
      THEN { CommonProps(id, i) @@ tpl : tpl \in T }
      ELSE { CommonProps(id, i) @@ [tpl EXCEPT !.children = f] :
               tpl \in {tp \in T : "children" \in DOMAIN tp},
               f \in ForestsOfSize(T, n - 1, id, 1) }

\* The ordered forests of exactly n nodes whose first tree is the i-th
\* child of the node identified by path.
ForestsOfSize(T, n, path, i) ==
  IF n = 0
  THEN {<<>>}
  ELSE UNION { { <<tr>> \o f : tr \in TreesOfSize(T, k, path, i),
                              f \in ForestsOfSize(T, n - k, path, i + 1) } :
               k \in 1..n }

Selections ==
  UNION { ForestsOfSize(ShapeTemplates, n, "", 1) : n \in 0..MaxNodes }
  \cup UNION { ForestsOfSize(RichTemplates, n, "", 1) : n \in 0..MaxRichNodes }

----------------------------------------------------------------------------
(* processNode *)

RECURSIVE processNode(_)

\* lines 66-75: the record of the eight common properties
commonFields(node) ==
  [type |-> node.type, name |-> node.name, x |-> node.x, y |-> node.y,
   width |-> node.width, height |-> node.height, id |-> node.id,
   visible |-> node.visible]

\* Variant: a mixed attribute is blanked with null instead of undefined.
omitMixedAsNull(val) == IF val = Mixed THEN Null ELSE val

\* `v === figma.mixed ? undefined : v`
omitMixed(val) == IF val = Mixed THEN Undefined ELSE val

\* Variant: the layout properties are read without probing for layoutMode.
frameFieldsUnprobed(node, nodeData) ==
  [k \in LayoutKeys |-> Get(node, k)] @@ nodeData

\* case 'FRAME', 'INSTANCE', 'COMPONENT'
frameFields(node, nodeData) ==
  IF "layoutMode" \in DOMAIN node
  THEN [k \in LayoutKeys |-> Get(node, k)] @@ nodeData
  ELSE nodeData

\* case 'TEXT'
textFields(node, nodeData) ==
  [characters |-> Get(node, "characters"),
   fontSize |-> omitMixed(Get(node, "fontSize")),
   fontName |-> omitMixed(Get(node, "fontName")),
   textAlignHorizontal |-> Get(node, "textAlignHorizontal"),
   textAlignVertical |-> Get(node, "textAlignVertical"),
   fills |-> omitMixed(Get(node, "fills"))] @@ nodeData

\* case 'RECTANGLE'
rectangleFields(node, nodeData) ==
  [cornerRadius |-> omitMixed(Get(node, "cornerRadius")),
   fills |-> omitMixed(Get(node, "fills")),
   strokes |-> Get(node, "strokes"),
   strokeWeight |-> omitMixed(Get(node, "strokeWeight"))] @@ nodeData

\* Variant: the two derived fields are taken from the wrong properties.
componentSetFieldsSwapped(node, nodeData) ==
  [componentId |-> node.name, instanceName |-> node.id] @@ nodeData

\* case 'COMPONENT_SET'
componentSetFields(node, nodeData) ==
  [componentId |-> node.id, instanceName |-> node.name] @@ nodeData

\* the second case 'COMPONENT' (after COMPONENT_SET)
componentFields(node, nodeData) ==
  [componentId |-> node.id, instanceName |-> node.name] @@ nodeData

\* case 'VECTOR'
vectorFields(node, nodeData) == nodeData

\* Variant: a type without a clause of its own gets the names of the node's
\* properties as otherProperties.
typeSpecificFieldsWithOtherProperties(node, nodeData) ==
  LET ty == node.type.v
  IN  IF ty \in {"FRAME", "INSTANCE", "COMPONENT"}
      THEN frameFields(node, nodeData)
      ELSE IF ty = "TEXT" THEN textFields(node, nodeData)
      ELSE IF ty = "RECTANGLE" THEN rectangleFields(node, nodeData)
      ELSE IF ty = "COMPONENT_SET" THEN componentSetFields(node, nodeData)
      ELSE IF ty = "COMPONENT" THEN componentFields(node, nodeData)
      ELSE Set(nodeData, "otherProperties", [t |-> "array", v |-> DOMAIN node])

\* The switch on node.type.  A JavaScript switch runs the first clause
\* whose label equals the discriminant, up to that clause's break.
typeSpecificFields(node, nodeData) ==
  LET ty == node.type.v
  IN  IF ty \in {"FRAME", "INSTANCE", "COMPONENT"}
      THEN frameFields(node, nodeData)
      ELSE IF ty = "TEXT" THEN textFields(node, nodeData)
      ELSE IF ty = "RECTANGLE" THEN rectangleFields(node, nodeData)
      ELSE IF ty = "COMPONENT_SET" THEN componentSetFields(node, nodeData)
      ELSE IF ty = "COMPONENT" THEN componentFields(node, nodeData)
      ELSE IF ty = "VECTOR" THEN vectorFields(node, nodeData)
      ELSE nodeData

\* Variant: the children are copied without recursing into them.
attachChildrenShallow(node, nodeData) ==
  IF "children" \in DOMAIN node /\ Len(node.children) > 0
  THEN Set(nodeData, "children",
           [i \in 1..Len(node.children) |->
              typeSpecificFields(node.children[i],
                                 commonFields(node.children[i]))])
  ELSE nodeData

\* Variant: the length of the child sequence is not tested.
attachChildrenAlways(node, nodeData) ==
  IF "children" \in DOMAIN node
  THEN Set(nodeData, "children",
           [i \in 1..Len(node.children) |-> processNode(node.children[i])])
  ELSE nodeData

\* Variant: the children are attached last to first.
attachChildrenReversed(node, nodeData) ==
  IF "children" \in DOMAIN node /\ Len(node.children) > 0
  THEN Set(nodeData, "children",
           [i \in 1..Len(node.children) |->
              processNode(node.children[Len(node.children) + 1 - i])])
  ELSE nodeData

\* lines 141-144: recurse into a non-empty child sequence
attachChildren(node, nodeData) ==
  IF "children" \in DOMAIN node /\ Len(node.children) > 0
  THEN Set(nodeData, "children",
           [i \in 1..Len(node.children) |-> processNode(node.children[i])])
  ELSE nodeData

processNode(node) ==
  attachChildren(node, typeSpecificFields(node, commonFields(node)))

RECURSIVE Flatten(_)
Flatten(seqs) == IF seqs = <<>> THEN <<>> ELSE Head(seqs) \o Flatten(Tail(seqs))

RECURSIVE processNodeCalls(_)

\* The invocations of processNode that processNode(node) amounts to, in
\* call order: the call on node, then the calls its children.map makes.
processNodeCalls(node) ==
  <<[arg |-> node, ret |-> processNode(node)]>>
  \o (IF "children" \in DOMAIN node /\ Len(node.children) > 0
      THEN Flatten([i \in 1..Len(node.children) |->
                      processNodeCalls(node.children[i])])
      ELSE <<>>)

----------------------------------------------------------------------------
(* JSON.stringify *)

ArrayOfObjectKeys == {"children", "selectedNodes"}

RECURSIVE JSONStringify(_)

\* The JSON document JSON.stringify(obj, null, 2) denotes: properties whose
\* value is undefined or a symbol are left out, arrays of objects are
\* serialized element by element, every other value is kept.
JSONStringify(obj) ==
  [k \in {p \in DOMAIN obj :
            p \in ArrayOfObjectKeys \/ obj[p].t \notin {"undefined", "symbol"}}
     |-> IF k \in ArrayOfObjectKeys
         THEN [i \in 1..Len(obj[k]) |-> JSONStringify(obj[k][i])]
         ELSE obj[k]]

----------------------------------------------------------------------------
(* exportSelectedWithDescendantsToJSON and the plugin's main script *)

ErrorPayload == [error |-> Str("No elements selected")]

postMessage(msg) == posted' = Append(posted, msg)

\* Variant: the selection is not tested for emptiness.
exportWithoutEmptyCheck ==
  LET selectionData ==
        [pageName |-> page.name, pageId |-> page.id,
         selectedNodes |->
           [i \in 1..Len(page.selection) |-> processNode(page.selection[i])]]
  IN  /\ postMessage([type |-> "export", data |-> JSONStringify(selectionData)])
      /\ calls' = Flatten([i \in 1..Len(page.selection) |->
                             processNodeCalls(page.selection[i])])
      /\ UNCHANGED page

\* Variant: the roots are taken off the selection as they are serialized.
exportConsumingSelection ==
  LET selection == page.selection
  IN  IF Len(selection) = 0
      THEN /\ postMessage([type |-> "export", data |-> JSONStringify(ErrorPayload)])
           /\ calls' = <<>>
           /\ UNCHANGED page
      ELSE LET selectionData ==
                 [pageName |-> page.name, pageId |-> page.id,
                  selectedNodes |->
                    [i \in 1..Len(selection) |-> processNode(selection[i])]]
           IN  /\ postMessage([type |-> "export", data |-> JSONStringify(selectionData)])
               /\ calls' = Flatten([i \in 1..Len(selection) |->
                                      processNodeCalls(selection[i])])
               /\ page' = [page EXCEPT !.selection = <<>>]

exportSelectedWithDescendantsToJSON ==
  LET currentPage == page
      selection == page.selection
  IN  IF Len(selection) = 0
      THEN /\ postMessage([type |-> "export", data |-> JSONStringify(ErrorPayload)])
           /\ calls' = <<>>
           /\ UNCHANGED page
      ELSE LET selectionData ==
                 [pageName |-> currentPage.name, pageId |-> currentPage.id,
                  selectedNodes |->
                    [i \in 1..Len(selection) |-> processNode(selection[i])]]
           IN  /\ postMessage([type |-> "export", data |-> JSONStringify(selectionData)])
               /\ calls' = Flatten([i \in 1..Len(selection) |->
                                      processNodeCalls(selection[i])])
               /\ UNCHANGED page

\* The top-level script: showUI, register onmessage, run the export.
Main ==
  /\ ~running
  /\ runs < MaxRuns
  /\ running' = TRUE
  /\ uiShown' = TRUE
  /\ runs' = runs + 1
  /\ exportSelectedWithDescendantsToJSON

UIMessages == {[type |-> "close"], [type |-> "resize"]}

\* figma.ui.onmessage
OnMessage ==
  /\ running /\ uiShown
  /\ \E msg \in UIMessages :
       IF msg.type = "close"
       THEN /\ running' = FALSE
            /\ uiShown' = FALSE
            /\ UNCHANGED <<page, posted, calls, runs>>
       ELSE UNCHANGED vars

Init ==
  /\ page \in { [name |-> Str("Page 1"), id |-> Str("0:1"), selection |-> sel] :
                  sel \in Selections }
  /\ running = FALSE
  /\ uiShown = FALSE
  /\ posted = <<>>
  /\ calls = <<>>
  /\ runs = 0

Next == Main \/ OnMessage

Spec == Init /\ [][Next]_vars

----------------------------------------------------------------------------
(* Reading trees: input nodes, returned records and JSON objects alike *)

\* The child sequence of a node or record; none counts as empty.
Kids(n) == IF "children" \in DOMAIN n THEN n.children ELSE <<>>

HasKids(n) == "children" \in DOMAIN n /\ Len(n.children) > 0

Min(a, b) == IF a < b THEN a ELSE b

RECURSIVE CountNodes(_)
\* The number of nodes of a forest, over all depths.
CountNodes(forest) ==
  IF forest = <<>> THEN 0
  ELSE 1 + CountNodes(Kids(Head(forest))) + CountNodes(Tail(forest))

RECURSIVE Preorder(_, _)
\* The nodes of a forest in document order, each as its id and depth.
Preorder(forest, d) ==
  IF forest = <<>> THEN <<>>
  ELSE <<[id |-> Get(Head(forest), "id"), depth |-> d]>>
       \o Preorder(Kids(Head(forest)), d + 1)
       \o Preorder(Tail(forest), d)

RECURSIVE PairsAt(_, _)
\* The pairs <<input node, output object>> found at the same position.
PairsAt(nodes, objs) ==
  UNION { {<<nodes[i], objs[i]>>} \cup PairsAt(Kids(nodes[i]), Kids(objs[i])) :
          i \in 1..Min(Len(nodes), Len(objs)) }

Exported == { i \in DOMAIN posted : "selectedNodes" \in DOMAIN posted[i].data }

\* Input node / JSON object pairs of every envelope posted so far.
JsonPairs ==
  UNION { PairsAt(page.selection, posted[i].data.selectedNodes) : i \in Exported }

Calls == { calls[i] : i \in DOMAIN calls }

TypeOf(n) == n.type.v

----------------------------------------------------------------------------
(* Claims *)

\* C1: for every node of type COMPONENT, the record returned by processNode
\* carries componentId equal to the node's id and instanceName equal to the
\* node's name.
C1_ComponentCarriesIdAndName ==
  \A c \in Calls :
    TypeOf(c.arg) = "COMPONENT" =>
      /\ Get(c.ret, "componentId") = c.arg.id
      /\ Get(c.ret, "instanceName") = c.arg.name

\* C2: the output tree mirrors the input tree: as many serialized records
\* over all depths as input nodes, one record per input node, each at the
\* nesting depth of its source node.
C2_OutputMirrorsInput ==
  \A i \in DOMAIN posted :
    page.selection # <<>> =>
      /\ i \in Exported
      /\ CountNodes(posted[i].data.selectedNodes) = CountNodes(page.selection)
      /\ Preorder(posted[i].data.selectedNodes, 0) = Preorder(page.selection, 0)

C2_Witness ==
  /\ posted # <<>>
  /\ \E e \in DOMAIN Preorder(page.selection, 0) :
       Preorder(page.selection, 0)[e].depth = 2
  /\ Len(page.selection) > 1

\* C3: a record has a children key exactly when the input node has a child
\* sequence with at least one element, and a children key never holds an
\* empty sequence; this holds of the returned record and of the JSON object.
C3_ChildrenKeyIffNonEmpty ==
  /\ \A c \in Calls :
       /\ ("children" \in DOMAIN c.ret) <=> HasKids(c.arg)
       /\ "children" \in DOMAIN c.ret => Len(c.ret.children) > 0
  /\ \A pr \in JsonPairs :
       /\ ("children" \in DOMAIN pr[2]) <=> HasKids(pr[1])
       /\ "children" \in DOMAIN pr[2] => Len(pr[2].children) > 0

C3_Witness ==
  /\ \E c \in Calls : "children" \in DOMAIN c.arg /\ c.arg.children = <<>>
  /\ \E c \in Calls : "children" \notin DOMAIN c.arg
  /\ \E c \in Calls : HasKids(c.arg)

MixableKeys(ty) ==
  IF ty = "TEXT" THEN {"fontSize", "fontName", "fills"}
  ELSE IF ty = "RECTANGLE" THEN {"cornerRadius", "fills", "strokeWeight"}
  ELSE {}

\* C4: in the posted JSON, a TEXT node's fontSize, fontName, fills and a
\* RECTANGLE node's cornerRadius, fills, strokeWeight are absent when the
\* attribute holds the mixed sentinel and carry the input value otherwise.
C4_MixedAttributesAbsent ==
  \A pr \in JsonPairs :
    \A k \in MixableKeys(TypeOf(pr[1])) :
      IF pr[1][k] = Mixed
      THEN k \notin DOMAIN pr[2]
      ELSE k \in DOMAIN pr[2] /\ pr[2][k] = pr[1][k]

C4_Witness ==
  \E pr \in JsonPairs :
    /\ TypeOf(pr[1]) = "RECTANGLE"
    /\ pr[1].cornerRadius = Num(4)
    /\ pr[1].fills = Mixed
    /\ pr[2].cornerRadius = Num(4)

\* C5: every run of the export posts exactly one export message; with an
\* empty selection its payload is the error object, no envelope is built and
\* processNode is never called; with a non-empty selection its payload is
\* the envelope and never the error object.
C5_EmptySelectionError ==
  /\ Len(posted) = runs
  /\ \A i \in DOMAIN posted :
       /\ posted[i].type = "export"
       /\ IF page.selection = <<>>
          THEN /\ posted[i].data = [error |-> Str("No elements selected")]
               /\ calls = <<>>
          ELSE /\ DOMAIN posted[i].data = {"pageName", "pageId", "selectedNodes"}
               /\ posted[i].data.pageName = page.name
               /\ posted[i].data.pageId = page.id
               /\ calls # <<>>

C5_Witness == page.selection = <<>> /\ Len(posted) = 1

\* C6: order is preserved at every level: selectedNodes[i] serializes the
\* i-th root and the i-th output child serializes the i-th input child,
\* nothing dropped, duplicated or reordered.
C6_OrderPreserved ==
  /\ \A i \in Exported :
       /\ Len(posted[i].data.selectedNodes) = Len(page.selection)
       /\ \A j \in 1..Len(page.selection) :
            Get(posted[i].data.selectedNodes[j], "id") = page.selection[j].id
  /\ \A pr \in JsonPairs :
       /\ Len(Kids(pr[2])) = Len(Kids(pr[1]))
       /\ \A j \in 1..Len(Kids(pr[1])) :
            Get(Kids(pr[2])[j], "id") = Kids(pr[1])[j].id

C6_Witness ==
  /\ Exported # {}
  /\ Len(page.selection) > 1
  /\ \E pr \in JsonPairs : Len(Kids(pr[1])) > 1

\* C7: a node whose type is not FRAME, INSTANCE, COMPONENT, TEXT, RECTANGLE
\* or COMPONENT_SET yields a record of exactly the eight common fields
\* copied from the node, plus children when it has a non-empty child
\* sequence.
C7_OtherTypesCommonOnly ==
  \A c \in Calls :
    TypeOf(c.arg) \notin DispatchedTypes =>
      /\ DOMAIN c.ret =
           CommonKeys \cup (IF HasKids(c.arg) THEN {"children"} ELSE {})
      /\ \A k \in CommonKeys : c.ret[k] = c.arg[k]

C7_Witness ==
  /\ \E c \in Calls : TypeOf(c.arg) = "GROUP" /\ HasKids(c.arg)
  /\ \E c \in Calls : TypeOf(c.arg) = "GROUP" /\ ~HasKids(c.arg)
  /\ \E c \in Calls : TypeOf(c.arg) = "VECTOR"

\* C8: a FRAME, INSTANCE or COMPONENT node that exposes layoutMode yields a
\* record with the seven layout fields copied; one that does not expose it
\* yields a record with none of the seven.
C8_LayoutFieldsByCapability ==
  \A c \in Calls :
    TypeOf(c.arg) \in FrameLikeTypes =>
      IF "layoutMode" \in DOMAIN c.arg
      THEN \A k \in LayoutKeys : k \in DOMAIN c.ret /\ c.ret[k] = c.arg[k]
      ELSE LayoutKeys \cap DOMAIN c.ret = {}

C8_Witness ==
  \E c \in Calls :
    /\ TypeOf(c.arg) = "INSTANCE"
    /\ "layoutMode" \notin DOMAIN c.arg
    /\ CommonKeys \subseteq DOMAIN c.ret

\* C9: a COMPONENT_SET node yields a record with componentId equal to its
\* own id and instanceName equal to its own name, besides the common fields.
C9_ComponentSetCarriesIdAndName ==
  \A c \in Calls :
    TypeOf(c.arg) = "COMPONENT_SET" =>
      /\ Get(c.ret, "componentId") = c.arg.id
      /\ Get(c.ret, "instanceName") = c.arg.name
      /\ \A k \in CommonKeys : Get(c.ret, k) = c.arg[k]

C9_Witness ==
  \E c \in Calls : TypeOf(c.arg) = "COMPONENT_SET" /\ c.ret.componentId = Str("1")

====
